---- MODULE Spec2Model ----
(***************************************************************************)
(* Model of scp_constructor/export.py: export_json (the generic graph      *)
(* encoding, "buildGraph") and export_mermaid (the diagram encoding,       *)
(* "buildDiagram").                                                        *)
(*                                                                         *)
(* Strings are sequences of one-character strings, so that URN splitting,  *)
(* hyphen replacement, title-casing and the "<urn>:<capability>" id are    *)
(* computed and not assumed.  A Python Optional is a sequence of length    *)
(* at most one: None is <<>> and a present value v is <<v>>.               *)
(***************************************************************************)
EXTENDS Integers, Sequences, FiniteSets, TLC

VARIABLES
    manifests,      \* the input list (export.py:8, :85); never assigned
    pcJ,            \* program point of export_json
    i,              \* index of the manifest of the loop at export.py:21
    j,              \* index of the dependency of the loop at export.py:38
    k,              \* index of the capability of the loop at export.py:60
    nodes,          \* export.py:17
    edges,          \* export.py:18
    seen_urns,      \* export.py:19
    meta,           \* the "meta" entry of the returned dict, export.py:77
    pcM,            \* program point of export_mermaid
    mi,             \* index of the manifest of the loop at export.py:101
    direction,      \* export.py:85
    lines,          \* export.py:95
    systems,        \* export.py:98, an insertion-ordered dict
    dependencies,   \* export.py:99
    tier1_ids,      \* export.py:157
    diagram         \* the string returned at export.py:162

varsJ == <<pcJ, i, j, k, nodes, edges, seen_urns, meta>>
varsM == <<pcM, mi, direction, lines, systems, dependencies, tier1_ids, diagram>>
vars == <<manifests, varsJ, varsM>>

----------------------------------------------------------------------------
(* Bounds of the explored inputs.  The size of an input is its number of   *)
(* manifests plus its number of dependency and capability entries.         *)
MaxGraphSize == 4
MaxDiagramSize == 4
MaxBothSize == 3

----------------------------------------------------------------------------
(* Python values *)
None == <<>>
Some(v) == <<v>>

Truthy(s) == Len(s) > 0

(* sep.join(ss) for a one-character sep *)
RECURSIVE Join(_, _)
Join(ss, sep) ==
    IF ss = <<>> THEN <<>>
    ELSE IF Len(ss) = 1 THEN ss[1]
    ELSE ss[1] \o <<sep>> \o Join(Tail(ss), sep)

(* str.split(sep) for a one-character sep: the segments between the        *)
(* separators; never an empty list                                         *)
RECURSIVE Split(_, _)
Split(s, sep) ==
    LET cuts == {p \in 1..Len(s) : s[p] = sep} IN
    IF cuts = {} THEN <<s>>
    ELSE LET c == CHOOSE p \in cuts : \A q \in cuts : p <= q
         IN  <<SubSeq(s, 1, c - 1)>> \o Split(SubSeq(s, c + 1, Len(s)), sep)

(* s.split(":")[-1] *)
LastSegment(s) == LET parts == Split(s, ":") IN parts[Len(parts)]

(* str.replace(a, b) for one-character a and b *)
Replace(s, a, b) == [p \in 1..Len(s) |-> IF s[p] = a THEN b ELSE s[p]]

LowerLetters == <<"c", "s", "t", "u", "v">>
UpperLetters == <<"C", "S", "T", "U", "V">>
IsCased(c) == \E n \in 1..Len(LowerLetters) : c = LowerLetters[n] \/ c = UpperLetters[n]
Upper(c) == IF \E n \in 1..Len(LowerLetters) : c = LowerLetters[n]
            THEN UpperLetters[CHOOSE n \in 1..Len(LowerLetters) : c = LowerLetters[n]]
            ELSE c
Lower(c) == IF \E n \in 1..Len(UpperLetters) : c = UpperLetters[n]
            THEN LowerLetters[CHOOSE n \in 1..Len(UpperLetters) : c = UpperLetters[n]]
            ELSE c

(* str.title(): a cased character is upper-cased when it follows an       *)
(* uncased one (or starts the string) and lower-cased otherwise           *)
Title(s) ==
    [p \in 1..Len(s) |->
        IF p = 1 \/ ~IsCased(s[p - 1]) THEN Upper(s[p]) ELSE Lower(s[p])]

----------------------------------------------------------------------------
(* The manifest model (scp_constructor.models, used by field access only) *)

U1 == <<"u", ":", "s", "-", "t">>
U2 == <<"v", ":", "s", "-", "t">>
U3 == <<"u">>
URNS == {U1, U2, U3}

CapST == <<"s", "-", "t">>
CapC == <<"c">>
CapNames == {CapST, CapC}

Capabilities == {[capability |-> c, type |-> "rest"] : c \in CapNames}

Dependencies ==
    {[system |-> u, capability |-> c,
      criticality |-> IF c = None THEN None ELSE Some("required"),
      failure_mode |-> IF c = None THEN None ELSE Some("fail-fast")] :
        u \in URNS, c \in {None, Some(CapC)}}

(* name, classification and ownership of a manifest *)
GraphProfiles ==
    {[name |-> <<"A">>,
      classification |-> Some([tier |-> 1, domain |-> "ordering"]),
      ownership |-> Some([team |-> "core"])],
     [name |-> <<"B">>, classification |-> None, ownership |-> None]}

DiagramProfiles ==
    {[name |-> <<"A">>,
      classification |-> Some([tier |-> 1, domain |-> "ordering"]),
      ownership |-> None],
     [name |-> <<"B">>,
      classification |-> Some([tier |-> 2, domain |-> "identity"]),
      ownership |-> None],
     [name |-> <<"C">>, classification |-> None, ownership |-> None]}

Manifest(u, p, ds, cs) ==
    [system |-> [urn |-> u, name |-> p.name, classification |-> p.classification],
     ownership |-> p.ownership,
     depends |-> ds,
     provides |-> cs]

(* the manifests of a given size: one plus the number of their entries *)
ManifestsOfSize(n, P, D, C) ==
    UNION {{Manifest(u, p, ds, cs) :
                u \in URNS, p \in P, ds \in [1..nd -> D], cs \in [1..(n - 1 - nd) -> C]} :
           nd \in 0..(n - 1)}

(* the manifests the scan can load, by size *)
GraphManifests ==
    [w \in 1..MaxGraphSize |-> ManifestsOfSize(w, GraphProfiles, Dependencies, Capabilities)]

DiagramManifests ==
    [w \in 1..MaxDiagramSize |-> ManifestsOfSize(w, DiagramProfiles, Dependencies, {})]

RECURSIVE InputSize(_)
InputSize(ms) ==
    IF ms = <<>> THEN 0
    ELSE 1 + Len(Head(ms).depends) + Len(Head(ms).provides) + InputSize(Tail(ms))

(* cli.py:57-61: the scan appends one loaded manifest *)
Load(MS, max) ==
    /\ pcJ = "idle" /\ pcM = "idle"
    /\ \E w \in 1..(max - InputSize(manifests)) : \E m \in MS[w] :
          manifests' = Append(manifests, m)
    /\ UNCHANGED <<varsJ, varsM>>

LoadGraphInput == Load(GraphManifests, MaxGraphSize)

LoadDiagramInput == Load(DiagramManifests, MaxDiagramSize)

(* the manifests given to both exports *)
BothManifests ==
    [w \in 1..MaxBothSize |-> ManifestsOfSize(w, GraphProfiles, Dependencies, Capabilities)]

LoadBothInput == Load(BothManifests, MaxBothSize)

----------------------------------------------------------------------------
(* export_json *)

(* export.py:26-33 *)
SystemNode(manifest) ==
    [id |-> manifest.system.urn,
     type |-> "System",
     name |-> manifest.system.name,
     tier |-> IF manifest.system.classification # None
              THEN Some(manifest.system.classification[1].tier) ELSE None,
     domain |-> IF manifest.system.classification # None
                THEN Some(manifest.system.classification[1].domain) ELSE None,
     team |-> IF manifest.ownership # None
              THEN Some(manifest.ownership[1].team) ELSE None]

(* export.py:41-46 *)
StubNode(dep) ==
    [id |-> dep.system, type |-> "System", name |-> LastSegment(dep.system), stub |-> TRUE]

(* export.py:49-56 *)
DependsOnEdge(urn, dep) ==
    [from |-> urn, to |-> dep.system, type |-> "DEPENDS_ON",
     capability |-> dep.capability,
     criticality |-> dep.criticality,
     failure_mode |-> dep.failure_mode]

(* export.py:61 *)
CapId(urn, cap) == urn \o <<":">> \o cap.capability

(* export.py:62-67 *)
CapabilityNode(urn, cap) ==
    [id |-> CapId(urn, cap), type |-> "Capability",
     name |-> cap.capability, capability_type |-> cap.type]

(* export.py:68-72 *)
ProvidesEdge(urn, cap) == [from |-> urn, to |-> CapId(urn, cap), type |-> "PROVIDES"]

(* export.py:25 *)
SystemUnseen(urn, seen) == urn \notin seen

(* StubNeeded with the test of export.py:40 lost: no stub is ever made *)
StubNeeded_Never(dep, seen) == FALSE

(* export.py:40 *)
StubNeeded(dep, seen) == dep.system \notin seen

(* AppendNode inserting at the front of the list *)
AppendNode_Front(ns, n) == <<n>> \o ns

(* list.append at export.py:26, :41, :62 *)
AppendNode(ns, n) == Append(ns, n)

(* list.append at export.py:49, :68 *)
AppendEdge(es, e) == Append(es, e)

(* Meta counting only the declared systems, not the stubs *)
Meta_DeclaredOnly(ns, es) ==
    [systems_count |->
        Cardinality({p \in 1..Len(ns) : ns[p].type = "System" /\ "stub" \notin DOMAIN ns[p]}),
     capabilities_count |-> Cardinality({p \in 1..Len(ns) : ns[p].type = "Capability"}),
     dependencies_count |-> Cardinality({p \in 1..Len(es) : es[p].type = "DEPENDS_ON"})]

(* export.py:77-81 *)
Meta(ns, es) ==
    [systems_count |-> Cardinality({p \in 1..Len(ns) : ns[p].type = "System"}),
     capabilities_count |-> Cardinality({p \in 1..Len(ns) : ns[p].type = "Capability"}),
     dependencies_count |-> Cardinality({p \in 1..Len(es) : es[p].type = "DEPENDS_ON"})]

(* Program points are <<pc, j, k>>.  export.py:59-60: capability kk of the *)
(* manifest when there is one, else the next manifest                      *)
AfterCaps(m, kk) ==
    IF Truthy(m.provides) /\ kk <= Len(m.provides) THEN <<"cap", 0, kk>> ELSE <<"manifest", 0, 0>>

(* export.py:37-38: dependency jj of the manifest when there is one, else   *)
(* the capability loop                                                     *)
AfterDeps(m, jj) ==
    IF Truthy(m.depends) /\ jj <= Len(m.depends) THEN <<"dep", jj, 0>> ELSE AfterCaps(m, 1)

(* export.py:36: what follows the system node of a manifest *)
AfterSystem(m) == AfterDeps(m, 1)

(* moves export_json to program point pt; "manifest" is the next manifest *)
Goto(pt) ==
    /\ pcJ' = pt[1]
    /\ j' = pt[2]
    /\ k' = pt[3]
    /\ i' = IF pt[1] = "manifest" THEN i + 1 ELSE i

CurManifest == manifests[i]
CurUrn == manifests[i].system.urn
CurDep == manifests[i].depends[j]
CurCap == manifests[i].provides[k]

(* export.py:21-34, the URN not yet seen *)
J_SystemNode ==
    /\ pcJ = "manifest" /\ i <= Len(manifests)
    /\ SystemUnseen(CurUrn, seen_urns)
    /\ nodes' = AppendNode(nodes, SystemNode(CurManifest))
    /\ seen_urns' = seen_urns \cup {CurUrn}
    /\ Goto(AfterSystem(CurManifest))
    /\ UNCHANGED <<manifests, edges, meta, varsM>>

(* export.py:21-25, the URN already seen: no node *)
J_SystemSeen ==
    /\ pcJ = "manifest" /\ i <= Len(manifests)
    /\ ~SystemUnseen(CurUrn, seen_urns)
    /\ Goto(AfterSystem(CurManifest))
    /\ UNCHANGED <<manifests, nodes, edges, seen_urns, meta, varsM>>

(* J_Stub without the seen_urns.add of export.py:47 *)
J_Stub_NoMark ==
    /\ pcJ = "dep"
    /\ StubNeeded(CurDep, seen_urns)
    /\ nodes' = AppendNode(nodes, StubNode(CurDep))
    /\ pcJ' = "dep_edge"
    /\ UNCHANGED <<manifests, i, j, k, edges, seen_urns, meta, varsM>>

(* export.py:40-47 *)
J_Stub ==
    /\ pcJ = "dep"
    /\ StubNeeded(CurDep, seen_urns)
    /\ nodes' = AppendNode(nodes, StubNode(CurDep))
    /\ seen_urns' = seen_urns \cup {CurDep.system}
    /\ pcJ' = "dep_edge"
    /\ UNCHANGED <<manifests, i, j, k, edges, meta, varsM>>

(* export.py:49-56 *)
J_DependsOn ==
    /\ \/ pcJ = "dep_edge"
       \/ pcJ = "dep" /\ ~StubNeeded(CurDep, seen_urns)
    /\ edges' = AppendEdge(edges, DependsOnEdge(CurUrn, CurDep))
    /\ Goto(AfterDeps(CurManifest, j + 1))
    /\ UNCHANGED <<manifests, nodes, seen_urns, meta, varsM>>

(* export.py:61-67 *)
J_CapabilityNode ==
    /\ pcJ = "cap"
    /\ nodes' = AppendNode(nodes, CapabilityNode(CurUrn, CurCap))
    /\ pcJ' = "cap_edge"
    /\ UNCHANGED <<manifests, i, j, k, edges, seen_urns, meta, varsM>>

(* export.py:68-72 *)
J_Provides ==
    /\ pcJ = "cap_edge"
    /\ edges' = AppendEdge(edges, ProvidesEdge(CurUrn, CurCap))
    /\ Goto(AfterCaps(CurManifest, k + 1))
    /\ UNCHANGED <<manifests, nodes, seen_urns, meta, varsM>>

(* export.py:74-82 *)
J_Return ==
    /\ pcJ = "manifest" /\ i > Len(manifests)
    /\ meta' = Some(Meta(nodes, edges))
    /\ pcJ' = "done"
    /\ UNCHANGED <<manifests, i, j, k, nodes, edges, seen_urns, varsM>>

(* cli.py:96 *)
CallJson ==
    /\ pcJ = "idle" /\ pcM = "idle"
    /\ pcJ' = "manifest"
    /\ UNCHANGED <<manifests, i, j, k, nodes, edges, seen_urns, meta, varsM>>

NextGraph ==
    \/ LoadGraphInput
    \/ CallJson
    \/ J_SystemNode
    \/ J_SystemSeen
    \/ J_Stub
    \/ J_DependsOn
    \/ J_CapabilityNode
    \/ J_Provides
    \/ J_Return

----------------------------------------------------------------------------
(* export_mermaid *)

(* export.py:165-171 *)
UrnToId(urn) ==
    LET parts == Split(urn, ":")
        name == IF Len(parts) > 0 THEN parts[Len(parts)] ELSE urn
    IN  Replace(name, "-", "_")

(* A dict is the sequence of its items in insertion order.                 *)
DictHas(d, key) == \E p \in 1..Len(d) : d[p].key = key
DictGet(d, key) == d[CHOOSE p \in 1..Len(d) : d[p].key = key].value

(* DictSet moving a present key to the end, as delete-and-insert would *)
DictSet_MoveToEnd(d, key, value) ==
    Append(SelectSeq(d, LAMBDA it : it.key # key), [key |-> key, value |-> value])

(* d[key] = value: a present key keeps its position *)
DictSet(d, key, value) ==
    IF DictHas(d, key)
    THEN [p \in 1..Len(d) |-> IF d[p].key = key THEN [key |-> key, value |-> value] ELSE d[p]]
    ELSE Append(d, [key |-> key, value |-> value])

(* export.py:105-109 *)
SystemInfo(manifest) ==
    [id |-> UrnToId(manifest.system.urn),
     name |-> manifest.system.name,
     tier |-> IF manifest.system.classification # None
              THEN Some(manifest.system.classification[1].tier) ELSE None]

(* export.py:117-123 *)
StubInfo(dep) ==
    [id |-> UrnToId(dep.system),
     name |-> Title(Replace(LastSegment(dep.system), "-", " ")),
     tier |-> None]

(* RegisterStub without the registration of export.py:119 *)
RegisterStub_Never(sys, dep) == sys

(* export.py:116-123 *)
RegisterStub(sys, dep) ==
    IF ~DictHas(sys, dep.system) THEN DictSet(sys, dep.system, StubInfo(dep)) ELSE sys

(* RegisterSystem keeping the entry a URN already has *)
RegisterSystem_KeepFirst(sys, manifest) ==
    IF DictHas(sys, manifest.system.urn) THEN sys
    ELSE DictSet(sys, manifest.system.urn, SystemInfo(manifest))

(* export.py:105 *)
RegisterSystem(sys, manifest) == DictSet(sys, manifest.system.urn, SystemInfo(manifest))

(* export.py:112-123, the systems after the dependencies deps *)
RECURSIVE RegisterStubs(_, _)
RegisterStubs(sys, deps) ==
    IF deps = <<>> THEN sys
    ELSE RegisterStubs(RegisterStub(sys, Head(deps)), Tail(deps))

(* export.py:113 *)
DependencyTriple(urn, dep) == <<urn, dep.system, dep.capability>>

DQ == "\""
GlyphCritical == "(red circle)"
GlyphWarning == "(yellow circle)"

(* export.py:129-139 *)
NodeLine(info) ==
    IF info.tier = Some(1)
    THEN <<"    ">> \o info.id \o <<"[[", DQ, GlyphCritical, " ">> \o info.name \o <<DQ, "]]">>
    ELSE IF info.tier = Some(2)
    THEN <<"    ">> \o info.id \o <<"[", DQ, GlyphWarning, " ">> \o info.name \o <<DQ, "]">>
    ELSE <<"    ">> \o info.id \o <<"[", DQ>> \o info.name \o <<DQ, "]">>

(* export.py:148-151 *)
EdgeLine(from_id, to_id, capability) ==
    IF capability # None /\ Truthy(capability[1])
    THEN <<"    ">> \o from_id \o <<" -->|">> \o capability[1] \o <<"| ">> \o to_id
    ELSE <<"    ">> \o from_id \o <<" --> ">> \o to_id

(* export.py:157 *)
Tier1Ids(sys) ==
    LET RECURSIVE Pick(_)
        Pick(d) ==
            IF d = <<>> THEN <<>>
            ELSE (IF Head(d).value.tier = Some(1) THEN <<Head(d).value.id>> ELSE <<>>)
                 \o Pick(Tail(d))
    IN  Pick(sys)

ClassDefLine == <<"    classDef critical fill:#ff6b6b,stroke:#333,stroke-width:2px">>

(* export.py:160 *)
ClassLine(ids) == <<"    class ">> \o Join(ids, ",") \o <<" critical">>

(* cli.py:99 with export.py:95 *)
CallMermaid ==
    /\ pcJ = "idle" /\ pcM = "idle"
    /\ lines' = <<<<"flowchart ", direction>>>>
    /\ pcM' = "register"
    /\ UNCHANGED <<manifests, varsJ, mi, direction, systems, dependencies, tier1_ids, diagram>>

(* export.py:101-123, one manifest *)
M_Register ==
    /\ pcM = "register" /\ mi <= Len(manifests)
    /\ LET manifest == manifests[mi]
           urn == manifest.system.urn
           deps == IF Truthy(manifest.depends) THEN manifest.depends ELSE <<>>
       IN  /\ systems' = RegisterStubs(RegisterSystem(systems, manifest), deps)
           /\ dependencies' =
                  dependencies \o [p \in 1..Len(deps) |-> DependencyTriple(urn, deps[p])]
    /\ mi' = mi + 1
    /\ UNCHANGED <<manifests, varsJ, pcM, direction, lines, tier1_ids, diagram>>

(* export.py:125-139 *)
M_Nodes ==
    /\ pcM = "register" /\ mi > Len(manifests)
    /\ lines' = lines \o <<<<>>, <<"    %% Systems">>>>
                      \o [p \in 1..Len(systems) |-> NodeLine(systems[p].value)]
    /\ pcM' = "edges"
    /\ UNCHANGED <<manifests, varsJ, mi, direction, systems, dependencies, tier1_ids, diagram>>

(* export.py:141-151; a missing key raises KeyError at :145 or :146 *)
M_Edges ==
    /\ pcM = "edges"
    /\ IF \A p \in 1..Len(dependencies) :
              DictHas(systems, dependencies[p][1]) /\ DictHas(systems, dependencies[p][2])
       THEN /\ lines' = lines \o <<<<>>, <<"    %% Dependencies">>>>
                              \o [p \in 1..Len(dependencies) |->
                                     EdgeLine(DictGet(systems, dependencies[p][1]).id,
                                              DictGet(systems, dependencies[p][2]).id,
                                              dependencies[p][3])]
            /\ pcM' = "style"
       ELSE /\ lines' = lines
            /\ pcM' = "KeyError"
    /\ UNCHANGED <<manifests, varsJ, mi, direction, systems, dependencies, tier1_ids, diagram>>

(* export.py:153-160 *)
M_Style ==
    /\ pcM = "style"
    /\ tier1_ids' = Tier1Ids(systems)
    /\ lines' = lines \o <<<<>>, <<"    %% Styling">>>>
                      \o (IF Truthy(tier1_ids') THEN <<ClassDefLine, ClassLine(tier1_ids')>>
                          ELSE <<>>)
    /\ pcM' = "return"
    /\ UNCHANGED <<manifests, varsJ, mi, direction, systems, dependencies, diagram>>

(* export.py:162 *)
M_Return ==
    /\ pcM = "return"
    /\ diagram' = Some(Join(lines, "\n"))
    /\ pcM' = "done"
    /\ UNCHANGED <<manifests, varsJ, mi, direction, lines, systems, dependencies, tier1_ids>>

NextDiagram ==
    \/ LoadDiagramInput
    \/ CallMermaid
    \/ M_Register
    \/ M_Nodes
    \/ M_Edges
    \/ M_Style
    \/ M_Return

(* export.py:17-19 *)
InitJ ==
    /\ pcJ = "idle" /\ i = 1 /\ j = 0 /\ k = 0
    /\ nodes = <<>> /\ edges = <<>> /\ seen_urns = {} /\ meta = None

(* export.py:95-99 *)
InitM ==
    /\ pcM = "idle" /\ mi = 1 /\ direction = "LR"
    /\ lines = <<>> /\ systems = <<>> /\ dependencies = <<>> /\ tier1_ids = <<>>
    /\ diagram = None

(* cli.py:56 *)
Init == manifests = <<>> /\ InitJ /\ InitM

SpecGraph == Init /\ [][NextGraph]_vars

SpecDiagram == Init /\ [][NextDiagram]_vars

(* export_mermaid called on the list export_json has returned from, as the *)
(* tests call both exports on one fixture (test_export.py:60, :102)        *)
CallMermaidAfterJson ==
    /\ pcJ = "done" /\ pcM = "idle"
    /\ lines' = <<<<"flowchart ", direction>>>>
    /\ pcM' = "register"
    /\ UNCHANGED <<manifests, varsJ, mi, direction, systems, dependencies, tier1_ids, diagram>>

NextBoth ==
    \/ LoadBothInput
    \/ CallJson
    \/ J_SystemNode
    \/ J_SystemSeen
    \/ J_Stub
    \/ J_DependsOn
    \/ J_CapabilityNode
    \/ J_Provides
    \/ J_Return
    \/ CallMermaidAfterJson
    \/ M_Register
    \/ M_Nodes
    \/ M_Edges
    \/ M_Style
    \/ M_Return

SpecBoth == Init /\ [][NextBoth]_vars

----------------------------------------------------------------------------
(* Properties of export_json *)

Returned == pcJ = "done"

IsStub(n) == "stub" \in DOMAIN n /\ n.stub

DeclaredUrns == {manifests[a].system.urn : a \in 1..Len(manifests)}

(* the (manifest, dependency) index pairs of the input *)
DepEntries == {<<a, b>> \in (1..Len(manifests)) \X (1..InputSize(manifests)) :
                  b <= Len(manifests[a].depends)}

TargetUrns == {manifests[e[1]].depends[e[2]].system : e \in DepEntries}

NodesWith(type, id) == {p \in 1..Len(nodes) : nodes[p].type = type /\ nodes[p].id = id}

(* C1: the nodes list returned by export_json holds no two nodes with the  *)
(* same id.                                                                *)
C1_NodeIdsUnique ==
    Returned => \A p, q \in 1..Len(nodes) : p # q => nodes[p].id # nodes[q].id

(* C2: after every single emission and in the final output, both endpoints *)
(* of every edge emitted so far are ids of nodes emitted so far.           *)
C2_EdgesResolve ==
    \A e \in 1..Len(edges) :
        /\ \E p \in 1..Len(nodes) : nodes[p].id = edges[e].from
        /\ \E p \in 1..Len(nodes) : nodes[p].id = edges[e].to

(* C2 witness: in the middle of a run, a DEPENDS_ON edge to a stub and a   *)
(* PROVIDES edge have been emitted.                                        *)
C2_Witness ==
    /\ pcJ \notin {"idle", "done"}
    /\ \E e \in 1..Len(edges) :
          /\ edges[e].type = "DEPENDS_ON"
          /\ \E p \in 1..Len(nodes) : nodes[p].id = edges[e].to /\ IsStub(nodes[p])
    /\ \E e \in 1..Len(edges) : edges[e].type = "PROVIDES"

RECURSIVE CountType(_, _)
CountType(seq, type) ==
    IF seq = <<>> THEN 0
    ELSE (IF Head(seq).type = type THEN 1 ELSE 0) + CountType(Tail(seq), type)

(* C3: the returned meta counts the System nodes (stubs included), the     *)
(* Capability nodes and the DEPENDS_ON edges, and the last count is the    *)
(* number of Dependency entries of the input.                              *)
C3_MetaCounts ==
    Returned =>
        /\ meta[1].systems_count = CountType(nodes, "System")
        /\ meta[1].capabilities_count = CountType(nodes, "Capability")
        /\ meta[1].dependencies_count = CountType(edges, "DEPENDS_ON")
        /\ meta[1].dependencies_count = Cardinality(DepEntries)

(* C3 witness: a returned graph with a stub, a declared system, a          *)
(* capability and two dependencies.                                        *)
C3_Witness ==
    /\ Returned
    /\ \E p, q \in 1..Len(nodes) :
          /\ IsStub(nodes[p])
          /\ nodes[q].type = "System" /\ ~IsStub(nodes[q])
    /\ meta[1].capabilities_count >= 1
    /\ meta[1].dependencies_count >= 2

(* C4: a dependency target declared by no manifest has exactly one System  *)
(* node, marked stub, and every dependency on it has its own DEPENDS_ON    *)
(* edge from its consumer.                                                 *)
C4_UndeclaredTargetStub ==
    Returned =>
        \A t \in TargetUrns \ DeclaredUrns :
            /\ Cardinality(NodesWith("System", t)) = 1
            /\ \A p \in NodesWith("System", t) : IsStub(nodes[p])
            /\ \A c \in DeclaredUrns :
                  Cardinality({e \in 1..Len(edges) :
                                  /\ edges[e].type = "DEPENDS_ON"
                                  /\ edges[e].from = c /\ edges[e].to = t})
                  = Cardinality({d \in DepEntries :
                                    /\ manifests[d[1]].system.urn = c
                                    /\ manifests[d[1]].depends[d[2]].system = t})

(* C4 witness: two manifests depend on the same undeclared target.         *)
C4_Witness ==
    /\ Returned
    /\ \E t \in TargetUrns \ DeclaredUrns :
          \E d1, d2 \in DepEntries :
              /\ d1[1] # d2[1]
              /\ manifests[d1[1]].depends[d1[2]].system = t
              /\ manifests[d2[1]].depends[d2[2]].system = t

(* C5: a System node of the returned graph is marked stub only if no       *)
(* manifest of the input declares its URN.                                 *)
C5_StubOnlyIfUndeclared ==
    Returned => \A p \in 1..Len(nodes) : IsStub(nodes[p]) => nodes[p].id \notin DeclaredUrns

(* C6: a URN declared by two or more manifests has exactly one System      *)
(* node, and it carries the name, tier, domain and team of the first of    *)
(* these manifests.                                                        *)
C6_FirstManifestWins ==
    Returned =>
        \A a, b \in 1..Len(manifests) :
            (a < b /\ manifests[a].system.urn = manifests[b].system.urn
                   /\ \A c \in 1..(a - 1) : manifests[c].system.urn # manifests[a].system.urn)
            => /\ Cardinality(NodesWith("System", manifests[a].system.urn)) = 1
               /\ \A p \in NodesWith("System", manifests[a].system.urn) :
                     nodes[p] = SystemNode(manifests[a])

(* what each manifest offers to the nodes list, in input order: its URN,   *)
(* its dependency targets, then its capability ids                         *)
NodeCandidates(ms) ==
    Join([a \in 1..Len(ms) |->
            <<[type |-> "System", id |-> ms[a].system.urn]>>
            \o [b \in 1..Len(ms[a].depends) |->
                   [type |-> "System", id |-> ms[a].depends[b].system]]
            \o [c \in 1..Len(ms[a].provides) |->
                   [type |-> "Capability", id |-> CapId(ms[a].system.urn, ms[a].provides[c])]]],
         [type |-> "separator", id |-> <<>>])

(* the candidates that are new: every capability, and the first mention of *)
(* every system URN                                                        *)
RECURSIVE FirstMentions(_, _)
FirstMentions(cands, seen) ==
    IF cands = <<>> THEN <<>>
    ELSE LET c == Head(cands) IN
         IF c.type = "Capability" THEN <<c>> \o FirstMentions(Tail(cands), seen)
         ELSE IF c.type = "System" /\ c.id \notin seen
              THEN <<c>> \o FirstMentions(Tail(cands), seen \cup {c.id})
              ELSE FirstMentions(Tail(cands), seen)

ExpectedEdges(ms) ==
    Join([a \in 1..Len(ms) |->
            [b \in 1..Len(ms[a].depends) |->
                [type |-> "DEPENDS_ON", from |-> ms[a].system.urn,
                 to |-> ms[a].depends[b].system]]
            \o [c \in 1..Len(ms[a].provides) |->
                   [type |-> "PROVIDES", from |-> ms[a].system.urn,
                    to |-> CapId(ms[a].system.urn, ms[a].provides[c])]]],
         [type |-> "separator", from |-> <<>>, to |-> <<>>])

IsPrefix(s, t) == Len(s) <= Len(t) /\ s = SubSeq(t, 1, Len(s))

NoSeparators(seq) == SelectSeq(seq, LAMBDA x : x.type # "separator")

(* C7: the nodes and the edges come out in input order: manifest by        *)
(* manifest, and within a manifest its system node, then stubs and         *)
(* DEPENDS_ON edges in dependency order, then Capability nodes and         *)
(* PROVIDES edges in capability order.                                     *)
C7_InputOrder ==
    LET ns == [p \in 1..Len(nodes) |-> [type |-> nodes[p].type, id |-> nodes[p].id]]
        es == [p \in 1..Len(edges) |->
                  [type |-> edges[p].type, from |-> edges[p].from, to |-> edges[p].to]]
        wantN == FirstMentions(NoSeparators(NodeCandidates(manifests)), {})
        wantE == NoSeparators(ExpectedEdges(manifests))
    IN  /\ pcJ # "idle" => IsPrefix(ns, wantN) /\ IsPrefix(es, wantE)
        /\ Returned => ns = wantN /\ es = wantE

(* C7 witness: two manifests, the first with a stub dependency and a       *)
(* capability, have been exported.                                         *)
C7_Witness ==
    /\ Returned
    /\ Len(manifests) >= 2
    /\ Len(manifests[1].depends) >= 1 /\ Len(manifests[1].provides) >= 1
    /\ \E p \in 1..Len(nodes) : IsStub(nodes[p])

----------------------------------------------------------------------------
(* Properties of export_mermaid, read off the returned text *)

Rendered == pcM = "done"

(* the returned text as lines *)
OutLines == Split(diagram[1], "\n")

LineIndex(out, line) == CHOOSE p \in 1..Len(out) : out[p] = line

(* the lines between the section comments *)
NodeSection(out) ==
    SubSeq(out, LineIndex(out, <<"    %% Systems">>) + 1,
                LineIndex(out, <<"    %% Dependencies">>) - 2)
EdgeSection(out) ==
    SubSeq(out, LineIndex(out, <<"    %% Dependencies">>) + 1,
                LineIndex(out, <<"    %% Styling">>) - 2)
StyleSection(out) == SubSeq(out, LineIndex(out, <<"    %% Styling">>) + 1, Len(out))

StartsWith(line, pre) == Len(pre) <= Len(line) /\ SubSeq(line, 1, Len(pre)) = pre
EndsWith(line, suf) ==
    Len(suf) <= Len(line) /\ SubSeq(line, Len(line) - Len(suf) + 1, Len(line)) = suf

IsCriticalNodeLine(line, id) ==
    /\ StartsWith(line, <<"    ">> \o id \o <<"[[", DQ, GlyphCritical, " ">>)
    /\ EndsWith(line, <<DQ, "]]">>)

IsWarningNodeLine(line, id) ==
    /\ StartsWith(line, <<"    ">> \o id \o <<"[", DQ, GlyphWarning, " ">>)
    /\ EndsWith(line, <<DQ, "]">>)

(* the identifier a node line declares: what stands before its bracket *)
DeclaredId(line) ==
    LET open == CHOOSE p \in 1..Len(line) :
                    line[p] \in {"[", "[["} /\ \A q \in 1..(p - 1) : line[q] \notin {"[", "[["}
    IN  SubSeq(line, 2, open - 1)

HasClassDef(out) == \E p \in 1..Len(out) : out[p] = ClassDefLine

IsClassLine(line) == StartsWith(line, <<"    class ">>) /\ EndsWith(line, <<" critical">>)

HasClassLine(out) == \E p \in 1..Len(out) : IsClassLine(out[p])

(* the identifiers the class line applies the critical style to *)
ClassIds(out) ==
    IF HasClassLine(out)
    THEN LET line == out[CHOOSE p \in 1..Len(out) : IsClassLine(out[p])]
         IN  Split(SubSeq(line, 2, Len(line) - 1), ",")
    ELSE <<>>

InSeq(x, seq) == \E p \in 1..Len(seq) : seq[p] = x

ManifestTier(a) ==
    IF manifests[a].system.classification = None THEN None
    ELSE Some(manifests[a].system.classification[1].tier)

Max(S) == CHOOSE x \in S : \A y \in S : y <= x

(* the last manifest of the input that declares URN u *)
LastDeclaring(u) == Max({a \in 1..Len(manifests) : manifests[a].system.urn = u})

(* the URNs export_mermaid registers: declared ones and stubs *)
RegisteredUrns == DeclaredUrns \cup TargetUrns

(* C8 as stated: every manifest of tier 1 has a double-bracket node line   *)
(* with the critical glyph and its identifier in the class line; every     *)
(* manifest of tier 2 has a single-bracket node line with the warning      *)
(* glyph and its identifier is not in the class line.                      *)
C8_EveryManifestStyled ==
    Rendered =>
        LET out == OutLines
            ns == NodeSection(out)
            cls == ClassIds(StyleSection(out))
        IN  \A a \in 1..Len(manifests) :
                LET id == UrnToId(manifests[a].system.urn) IN
                /\ ManifestTier(a) = Some(1) =>
                      /\ \E p \in 1..Len(ns) : IsCriticalNodeLine(ns[p], id)
                      /\ InSeq(id, cls)
                /\ ManifestTier(a) = Some(2) =>
                      /\ \E p \in 1..Len(ns) : IsWarningNodeLine(ns[p], id)
                      /\ ~InSeq(id, cls)

(* C8, amended: the last manifest declaring a URN decides its styling.     *)
(* Tier 1: a double-bracket node line with the critical glyph, and the     *)
(* identifier is in the class line.  Tier 2: a single-bracket node line    *)
(* with the warning glyph, and the system adds no entry to the class line, *)
(* which has one entry per URN whose deciding tier is 1; the identifier    *)
(* is listed only when another such URN derives the same identifier.       *)
C8_LastManifestStyled ==
    Rendered =>
        LET out == OutLines
            ns == NodeSection(out)
            cls == ClassIds(StyleSection(out))
        IN  /\ \A u \in DeclaredUrns :
                  LET id == UrnToId(u)
                      tier == ManifestTier(LastDeclaring(u))
                  IN  /\ tier = Some(1) =>
                            /\ \E p \in 1..Len(ns) : IsCriticalNodeLine(ns[p], id)
                            /\ InSeq(id, cls)
                      /\ tier = Some(2) =>
                            /\ \E p \in 1..Len(ns) : IsWarningNodeLine(ns[p], id)
                            /\ InSeq(id, cls) =>
                                  \E v \in DeclaredUrns \ {u} :
                                      /\ UrnToId(v) = id
                                      /\ ManifestTier(LastDeclaring(v)) = Some(1)
            /\ Len(cls) =
                  Cardinality({u \in DeclaredUrns : ManifestTier(LastDeclaring(u)) = Some(1)})

(* C8 witness: a URN is declared twice with tiers 2 then 1, and a URN that *)
(* was first a dependency target is declared with tier 2.                  *)
C8_Witness ==
    /\ Rendered
    /\ \E a, b \in 1..Len(manifests) :
          /\ a < b
          /\ manifests[a].system.urn = manifests[b].system.urn
          /\ ManifestTier(a) = Some(2) /\ ManifestTier(b) = Some(1)
    /\ \E a, b \in 1..Len(manifests) :
          /\ a < b
          /\ \E d \in 1..Len(manifests[a].depends) :
                manifests[a].depends[d].system = manifests[b].system.urn
          /\ \A c \in 1..(b - 1) : manifests[c].system.urn # manifests[b].system.urn
          /\ ManifestTier(b) = Some(2)

(* the URNs of the input in the order of their first mention, as the URN   *)
(* of a manifest or as a dependency target                                 *)
RegistrationOrder(ms) ==
    LET firsts == FirstMentions(SelectSeq(NodeCandidates(ms), LAMBDA c : c.type = "System"), {})
    IN  [p \in 1..Len(firsts) |-> firsts[p].id]

(* C9: the classDef line and the class line are there exactly when a       *)
(* registered system has tier 1; the class line then lists the identifiers *)
(* of the tier-1 systems in registration order and no identifier of a      *)
(* registered system of another tier or of none.                           *)
C9_CriticalClassExact ==
    Rendered =>
        LET tierOf(u) == IF u \in DeclaredUrns THEN ManifestTier(LastDeclaring(u)) ELSE None
            order == RegistrationOrder(manifests)
            critical == SelectSeq(order, LAMBDA u : tierOf(u) = Some(1))
            style == StyleSection(OutLines)
            cls == ClassIds(style)
        IN  /\ HasClassDef(style) <=> HasClassLine(style)
            /\ HasClassLine(style) <=> \E u \in RegisteredUrns : tierOf(u) = Some(1)
            /\ cls = [p \in 1..Len(critical) |-> UrnToId(critical[p])]
            /\ \A u \in RegisteredUrns : tierOf(u) # Some(1) => ~InSeq(UrnToId(u), cls)

(* the dependency entries of the input as edge lines, in input order *)
ExpectedEdgeLines(ms) ==
    Join([a \in 1..Len(ms) |->
            [b \in 1..Len(ms[a].depends) |->
                LET dep == ms[a].depends[b]
                    from == UrnToId(ms[a].system.urn)
                    to == UrnToId(dep.system)
                IN  IF dep.capability # None
                    THEN <<"    ">> \o from \o <<" -->|">> \o dep.capability[1] \o <<"| ">> \o to
                    ELSE <<"    ">> \o from \o <<" --> ">> \o to]],
         <<"separator">>)

----------------------------------------------------------------------------
(* Properties of the two exports of one input *)

(* the ids of the System nodes of the graph, in list order *)
SystemNodeIds ==
    LET sys == SelectSeq(nodes, LAMBDA n : n.type = "System")
    IN  [p \in 1..Len(sys) |-> sys[p].id]

(* C11: the ids of the System nodes of the graph, stubs included, are      *)
(* element by element the URNs export_mermaid registers, in registration   *)
(* order, and the diagram has one node line per System node, declaring the *)
(* identifier of that node's URN.                                          *)
C11_SameSystems ==
    (Returned /\ Rendered) =>
        LET ids == SystemNodeIds
            ns == NodeSection(OutLines)
        IN  /\ ids = [p \in 1..Len(systems) |-> systems[p].key]
            /\ Len(ns) = Len(ids)
            /\ \A p \in 1..Len(ns) : DeclaredId(ns[p]) = UrnToId(ids[p])

(* C11 witness: both exports are done on an input where a URN is declared  *)
(* again after another system was registered, and the graph has a stub.    *)
C11_Witness ==
    /\ Returned /\ Rendered
    /\ \E p \in 1..Len(nodes) : IsStub(nodes[p])
    /\ \E a, b \in 1..Len(manifests) :
          /\ a < b
          /\ manifests[b].system.urn \in
                 {manifests[a].system.urn}
                 \cup {manifests[a].depends[d].system : d \in 1..Len(manifests[a].depends)}
    /\ Len(SystemNodeIds) >= 2

====
